---- MODULE Spec2Model ----
(***************************************************************************)
(* Model of modules/xml_to_dataframe.py: the revision extractor            *)
(* (parse_revision_xml), the batched article assembler                     *)
(* (process_article_directory) and the run driver (main).                  *)
(*                                                                         *)
(* Optional values (Python None / a missing element / pandas NaT) are      *)
(* sequences of length at most one: <<>> is absent, <<v>> is present; the  *)
(* string-valued fields of a record are all held this way.                 *)
(* An XML document is the sequence of its top-level elements; an element   *)
(* is [tag, text, kids] with kids the sequence of its child elements.      *)
(* A DataFrame is the sequence of its rows in positional order; each row   *)
(* carries its index label in the field "index".                           *)
(***************************************************************************)
EXTENDS Integers, Sequences, FiniteSets, TLC

VARIABLES
    entries,        \* data_dir.iterdir(): the entries main has not visited yet
    batch_size,     \* --batch-size
    include_text,   \* --include-text
    pc,             \* position of the run
    article,        \* name of the article directory being processed
    xml_files,      \* the discovered file list of the article
    i,              \* start offset of the current batch
    batch,          \* files of the current batch not yet processed
    revision_data,  \* records of the current batch
    dataframes,     \* partial tables of the batches done
    df,             \* the table process_article_directory returned
    tie,            \* how the sort ordered equal keys in this call
    outputs,        \* names of the articles with a feather file
    summaries,      \* names of the articles whose summary was printed
    log             \* the "Error processing <path>" lines printed

vars == <<entries, batch_size, include_text, pc, article, xml_files, i, batch,
          revision_data, dataframes, df, tie, outputs, summaries, log>>

----------------------------------------------------------------------------
(* Bounds of the model *)

MaxFiles == 3
MainMaxFiles == 2
MaxBatch == 3

\* The default of --batch-size.
DefaultBatchSize == 1000

----------------------------------------------------------------------------
(* Optional values and small helpers *)

None == <<>>
Some(x) == <<x>>

Range(s) == {s[k] : k \in 1..Len(s)}

Min(a, b) == IF a < b THEN a ELSE b

RECURSIVE Flatten(_)
Flatten(ss) == IF ss = <<>> THEN <<>> ELSE Head(ss) \o Flatten(Tail(ss))

----------------------------------------------------------------------------
(* XML documents *)

Leaf(tag, text) == [tag |-> tag, text |-> text, kids |-> <<>>]
Node(tag, kids) == [tag |-> tag, text |-> "", kids |-> kids]

\* Tag.descendants: every element below, in document order.
RECURSIVE Descendants(_)
Descendants(kids) ==
    IF kids = <<>> THEN <<>>
    ELSE <<Head(kids)>> \o Descendants(Head(kids).kids) \o Descendants(Tail(kids))

\* Tag.find(name): the first descendant with that tag (recursive=True is the
\* default), or None.
FindShallow(kids, tag) ==
    LET m == SelectSeq(kids, LAMBDA e : e.tag = tag)
    IN  IF m = <<>> THEN None ELSE Some(Head(m))

Find(kids, tag) == FindShallow(Descendants(kids), tag)

\* Tag.text: all the strings below the element, concatenated.
RECURSIVE JoinText(_)
JoinText(kids) ==
    IF kids = <<>> THEN ""
    ELSE Head(kids).text \o JoinText(Head(kids).kids) \o JoinText(Tail(kids))

TextOf(e) == e.text \o JoinText(e.kids)

\* "x.text if x else None"
TextOrNone(found) == IF found = None THEN None ELSE Some(TextOf(found[1]))

----------------------------------------------------------------------------
(* parse_revision_xml *)

ContributorUsernameNoFallback(contributor) ==
    TextOrNone(Find(contributor.kids, "username"))

ContributorUsername(contributor) ==
    LET username_elem == Find(contributor.kids, "username")
        ip_elem == Find(contributor.kids, "ip")
    IN  IF username_elem # None THEN Some(TextOf(username_elem[1]))
        ELSE TextOrNone(ip_elem)

\* len(text_content)
TextLength(text_content) == Len(text_content)

\* "if include_text: data['text'] = text_content"
WithTextAlways(data, text_content, with_text) ==
    data @@ [text |-> Some(text_content)]

WithText(data, text_content, with_text) ==
    IF with_text THEN data @@ [text |-> Some(text_content)] ELSE data

ParseRevisionXml(xml_content, with_text) ==
    LET revision == Find(xml_content, "revision")
    IN  IF revision = None THEN None
        ELSE LET rkids == revision[1].kids
                 contributor == Find(rkids, "contributor")
                 username == IF contributor # None
                             THEN ContributorUsername(contributor[1])
                             ELSE None
                 userid == IF contributor # None
                           THEN TextOrNone(Find(contributor[1].kids, "id"))
                           ELSE None
                 text_elem == Find(rkids, "text")
                 text_content == IF text_elem # None THEN TextOf(text_elem[1]) ELSE ""
                 data == [revision_id |-> TextOrNone(Find(rkids, "id")),
                          timestamp |-> TextOrNone(Find(rkids, "timestamp")),
                          username |-> username,
                          userid |-> userid,
                          comment |-> TextOrNone(Find(rkids, "comment")),
                          text_length |-> TextLength(text_content)]
             IN  Some(WithText(data, text_content, with_text))

----------------------------------------------------------------------------
(* Inputs: file contents and directory listings *)

GoodTimestamps == {"2020-01-01T00:00:00Z", "2020-01-02T00:00:00Z"}
TimestampTexts == GoodTimestamps \cup {"not-a-date"}

NoRevisionDoc == <<Node("page", <<Leaf("title", "T")>>)>>

RevisionDoc(rkids) == <<Node("revision", rkids)>>

\* Documents of the assembler runs: they differ in the timestamp only.
PipelineDocs ==
    {NoRevisionDoc, RevisionDoc(<<Leaf("id", "7")>>)}
    \cup {RevisionDoc(<<Leaf("id", "7"), Leaf("timestamp", t)>>) : t \in TimestampTexts}

\* Documents of the extractor runs: every combination of the optional
\* children of a revision, in the export's order.
IdChoices == {<<>>, <<Leaf("id", "7")>>}
TimestampChoices ==
    {<<>>, <<Leaf("timestamp", "2020-01-02T00:00:00Z")>>,
     <<Leaf("timestamp", "not-a-date")>>}
ContributorKids ==
    {a \o b \o c : a \in {<<>>, <<Leaf("username", "Alice")>>},
                   b \in {<<>>, <<Leaf("ip", "10.0.0.1")>>},
                   c \in {<<>>, <<Leaf("id", "5")>>}}
ContributorChoices == {<<>>} \cup {<<Node("contributor", k)>> : k \in ContributorKids}
CommentChoices == {<<>>, <<Leaf("comment", "typo")>>}
TextChoices == {<<>>, <<Leaf("text", "")>>, <<Leaf("text", "ab")>>}

ExtractorDocs ==
    {NoRevisionDoc}
    \cup {RevisionDoc(a \o b \o c \o d \o e) :
            a \in IdChoices, b \in TimestampChoices, c \in ContributorChoices,
            d \in CommentChoices, e \in TextChoices}

\* What read_text gives: None when it raises, else the document.
ContentsOf(docs) == {None} \cup {Some(d) : d \in docs}

\* <article>/<year>/<month>/<name>: the k-th discovered file lies in its own
\* month directory.
Years == <<"2019", "2020", "2021">>
Months == <<"01", "02">>
PathAt(k) == [year |-> Years[((k - 1) \div 2) + 1],
              month |-> Months[((k - 1) % 2) + 1],
              name |-> "revision.xml"]

FileLists(maxFiles, contents) ==
    UNION {[1..n -> contents] : n \in 0..maxFiles}

Discovered(cs) == [k \in 1..Len(cs) |-> [path |-> PathAt(k), content |-> cs[k]]]

DirEntry(name) == [name |-> name, is_dir |-> TRUE]
FileEntry(name) == [name |-> name, is_dir |-> FALSE]

OneArticle == {<<DirEntry("ArticleA")>>}
SeveralArticles ==
    {<<DirEntry("ArticleA"), DirEntry("ArticleB")>>,
     <<DirEntry("ArticleB"), FileEntry("notes.txt"), DirEntry("ArticleA"),
       DirEntry("ArticleC")>>}

----------------------------------------------------------------------------
(* Tables *)

\* pd.DataFrame(revision_data): one row per record, labelled 0..n-1.
DataFrame(records) ==
    [k \in 1..Len(records) |-> records[k] @@ [index |-> k - 1]]

\* pd.concat(dataframes, ignore_index=True)
Concat(frames) ==
    LET rows == Flatten(frames)
    IN  [k \in 1..Len(rows) |-> [rows[k] EXCEPT !.index = k - 1]]

\* pd.to_datetime of one value: None becomes NaT, a timestamp text becomes
\* its day number, anything else raises.
Parseable(ts) == ts = None \/ ts[1] \in GoodTimestamps

DayNumber(text) ==
    CASE text = "2020-01-01T00:00:00Z" -> 18262
      [] text = "2020-01-02T00:00:00Z" -> 18263

ToDatetimeValue(ts) == IF ts = None THEN None ELSE Some(DayNumber(ts[1]))

ToDatetimeRaises(frame) == \E k \in 1..Len(frame) : ~Parseable(frame[k].timestamp)

ToDatetime(frame) ==
    [k \in 1..Len(frame) |-> [frame[k] EXCEPT !.timestamp = ToDatetimeValue(@)]]

\* The orders in which an argsort that is not stable may leave equal keys:
\* t[k] is the rank of position k among the rows of its key.
TieOrders(n) == {t \in [1..n -> 1..n] : \A a, b \in 1..n : a # b => t[a] # t[b]}

\* sort_values('timestamp', ascending=False), kind='quicksort',
\* na_position='last': the rows with a timestamp by descending timestamp,
\* equal timestamps as the argsort left them, then the NaT rows in their
\* positional order.
SortedPositions(frame, t, ascending) ==
    LET n == Len(frame)
        valued == {k \in 1..n : frame[k].timestamp # None}
        nats == {k \in 1..n : frame[k].timestamp = None}
        Precedes(a, b) ==
            IF (a \in valued) # (b \in valued) THEN a \in valued
            ELSE IF a \in nats THEN a < b
            ELSE \/ IF ascending
                    THEN frame[a].timestamp[1] < frame[b].timestamp[1]
                    ELSE frame[a].timestamp[1] > frame[b].timestamp[1]
                 \/ /\ frame[a].timestamp[1] = frame[b].timestamp[1]
                    /\ t[a] < t[b]
        Rank(a) == 1 + Cardinality({b \in 1..n : Precedes(b, a)})
    IN  [r \in 1..n |-> CHOOSE a \in 1..n : Rank(a) = r]

SortValuesAscending(frame, t) ==
    LET p == SortedPositions(frame, t, TRUE)
    IN  [r \in 1..Len(frame) |-> frame[p[r]]]

SortValues(frame, t) ==
    LET p == SortedPositions(frame, t, FALSE)
    IN  [r \in 1..Len(frame) |-> frame[p[r]]]

----------------------------------------------------------------------------
(* process_article_directory *)

\* xml_files[i:i + batch_size]
BatchOfShort(files, start, size) ==
    SubSeq(files, start + 1, Min(start + size - 1, Len(files)))

BatchOf(files, start, size) ==
    SubSeq(files, start + 1, Min(start + size, Len(files)))

\* The records one file adds to revision_data.
RecordsOfFile(file, with_text) ==
    IF file.content = None THEN <<>>
    ELSE LET data == ParseRevisionXml(file.content[1], with_text)
         IN  IF data = None THEN <<>>
             ELSE <<data[1] @@ [year |-> file.path.year, month |-> file.path.month]>>

\* The error lines one file prints.
ErrorsOfFile(art, file) ==
    IF file.content = None THEN <<[article |-> art, path |-> file.path]>> ELSE <<>>

InitWith(listings, sizes) ==
    /\ entries \in listings
    /\ batch_size \in sizes
    /\ include_text \in BOOLEAN
    /\ pc = "main"
    /\ article = ""
    /\ xml_files = <<>>
    /\ i = 0
    /\ batch = <<>>
    /\ revision_data = <<>>
    /\ dataframes = <<>>
    /\ df = None
    /\ tie = <<>>
    /\ outputs = {}
    /\ summaries = <<>>
    /\ log = <<>>

\* The working locals of process_article_directory once it has returned;
\* xml_files stays as the listing of the article directory last visited.
ForgetLocals ==
    /\ xml_files' = xml_files
    /\ i' = 0
    /\ batch' = <<>>
    /\ revision_data' = <<>>
    /\ dataframes' = <<>>

\* main, lines 129-131: an entry of data_dir that is not a directory.
SkipNonDirectory ==
    /\ pc = "main"
    /\ entries # <<>>
    /\ ~Head(entries).is_dir
    /\ entries' = Tail(entries)
    /\ UNCHANGED <<batch_size, include_text, pc, article, xml_files, i, batch,
                   revision_data, dataframes, df, tie, outputs, summaries, log>>

\* main, line 133, and process_article_directory, lines 64-74: the next
\* article directory and its discovered files; with no file the call returns
\* None and main goes on to the next entry.
Discover(maxFiles, contents) ==
    /\ pc = "main"
    /\ entries # <<>>
    /\ Head(entries).is_dir
    /\ \E cs \in FileLists(maxFiles, contents) :
          /\ xml_files' = Discovered(cs)
          /\ pc' = IF cs = <<>> THEN "main" ELSE "batch"
    /\ article' = Head(entries).name
    /\ entries' = Tail(entries)
    /\ i' = 0
    /\ batch' = <<>>
    /\ revision_data' = <<>>
    /\ dataframes' = <<>>
    /\ df' = None
    /\ tie' = <<>>
    /\ UNCHANGED <<batch_size, include_text, outputs, summaries, log>>

\* Lines 78-82: the next batch.
BeginBatch ==
    /\ pc = "batch"
    /\ batch' = BatchOf(xml_files, i, batch_size)
    /\ revision_data' = <<>>
    /\ pc' = "file"
    /\ UNCHANGED <<entries, batch_size, include_text, article, xml_files, i,
                   dataframes, df, tie, outputs, summaries, log>>

\* Lines 84-94 without the try: the exception of a read leaves the call.
ProcessFileNoCatch ==
    /\ pc = "file"
    /\ batch # <<>>
    /\ IF Head(batch).content = None
       THEN /\ pc' = "crashed"
            /\ UNCHANGED <<batch, revision_data>>
       ELSE /\ revision_data' = revision_data \o RecordsOfFile(Head(batch), include_text)
            /\ batch' = Tail(batch)
            /\ pc' = pc
    /\ UNCHANGED <<entries, batch_size, include_text, article, xml_files, i,
                   dataframes, df, tie, outputs, summaries, log>>

\* Lines 84-94 printing the error line for every file that adds no record.
ProcessFileLogEmpty ==
    /\ pc = "file"
    /\ batch # <<>>
    /\ revision_data' = revision_data \o RecordsOfFile(Head(batch), include_text)
    /\ log' = IF RecordsOfFile(Head(batch), include_text) = <<>>
              THEN Append(log, [article |-> article, path |-> Head(batch).path])
              ELSE log
    /\ batch' = Tail(batch)
    /\ UNCHANGED <<entries, batch_size, include_text, pc, article, xml_files, i,
                   dataframes, df, tie, outputs, summaries>>

\* Lines 84-94: one file of the batch; a read or parse that raises prints
\* an error line and the file adds nothing.
ProcessFile ==
    /\ pc = "file"
    /\ batch # <<>>
    /\ revision_data' = revision_data \o RecordsOfFile(Head(batch), include_text)
    /\ log' = log \o ErrorsOfFile(article, Head(batch))
    /\ batch' = Tail(batch)
    /\ UNCHANGED <<entries, batch_size, include_text, pc, article, xml_files, i,
                   dataframes, df, tie, outputs, summaries>>

\* Lines 96-97 and the step of the range of line 78.
EndBatch ==
    /\ pc = "file"
    /\ batch = <<>>
    /\ dataframes' = IF revision_data # <<>>
                     THEN Append(dataframes, DataFrame(revision_data))
                     ELSE dataframes
    /\ revision_data' = <<>>
    /\ i' = i + batch_size
    /\ pc' = IF i + batch_size < Len(xml_files) THEN "batch" ELSE "assemble"
    /\ UNCHANGED <<entries, batch_size, include_text, article, xml_files, batch,
                   df, tie, outputs, summaries, log>>

\* Lines 99-100 returning an empty table instead of None.
ReturnEmptyTable ==
    /\ pc = "assemble"
    /\ dataframes = <<>>
    /\ df' = Some(<<>>)
    /\ pc' = "write"
    /\ ForgetLocals
    /\ UNCHANGED <<entries, batch_size, include_text, article, tie, outputs,
                   summaries, log>>

\* Lines 99-100: no batch gave a record; main goes on to the next entry.
ReturnNone ==
    /\ pc = "assemble"
    /\ dataframes = <<>>
    /\ df' = None
    /\ pc' = "main"
    /\ ForgetLocals
    /\ UNCHANGED <<entries, batch_size, include_text, article, tie, outputs,
                   summaries, log>>

\* Line 104 with the error caught: the article is dropped, the run goes on.
TimestampErrorCaught ==
    /\ pc = "assemble"
    /\ dataframes # <<>>
    /\ ToDatetimeRaises(Concat(dataframes))
    /\ df' = None
    /\ pc' = "main"
    /\ ForgetLocals
    /\ UNCHANGED <<entries, batch_size, include_text, article, tie, outputs,
                   summaries, log>>

\* Line 104 raising: nothing in process_article_directory or main catches
\* it, the run ends.
TimestampError ==
    /\ pc = "assemble"
    /\ dataframes # <<>>
    /\ ToDatetimeRaises(Concat(dataframes))
    /\ pc' = "crashed"
    /\ UNCHANGED <<entries, batch_size, include_text, article, xml_files, i, batch,
                   revision_data, dataframes, df, tie, outputs, summaries, log>>

\* Lines 103-105: concatenate, convert, sort.
SortAndReturn ==
    /\ pc = "assemble"
    /\ dataframes # <<>>
    /\ ~ToDatetimeRaises(Concat(dataframes))
    /\ \E t \in TieOrders(Len(Concat(dataframes))) :
          /\ tie' = t
          /\ df' = Some(SortValues(ToDatetime(Concat(dataframes)), t))
    /\ pc' = "write"
    /\ UNCHANGED <<entries, batch_size, include_text, article, xml_files, i, batch,
                   revision_data, dataframes, outputs, summaries, log>>

\* main, lines 135-138: the feather file and the summary.
WriteOutput ==
    /\ pc = "write"
    /\ outputs' = outputs \cup {article}
    /\ summaries' = Append(summaries, article)
    /\ pc' = "main"
    /\ df' = None
    /\ tie' = <<>>
    /\ ForgetLocals
    /\ UNCHANGED <<entries, batch_size, include_text, article, log>>

\* main: data_dir.iterdir() is exhausted.
Finish ==
    /\ pc = "main"
    /\ entries = <<>>
    /\ pc' = "done"
    /\ UNCHANGED <<entries, batch_size, include_text, article, xml_files, i, batch,
                   revision_data, dataframes, df, tie, outputs, summaries, log>>

Step ==
    \/ BeginBatch
    \/ ProcessFile
    \/ EndBatch
    \/ ReturnNone
    \/ TimestampError
    \/ SortAndReturn
    \/ WriteOutput
    \/ Finish

\* One article directory, up to MaxFiles files.
Init == InitWith(OneArticle, 1..MaxBatch)
Next == Discover(MaxFiles, ContentsOf(PipelineDocs)) \/ Step
Spec == Init /\ [][Next]_vars

\* Several article directories and a stray file, up to MainMaxFiles files each.
InitMain == InitWith(SeveralArticles, {1, DefaultBatchSize})
NextMain ==
    \/ SkipNonDirectory
    \/ Discover(MainMaxFiles, ContentsOf(PipelineDocs))
    \/ Step
SpecMain == InitMain /\ [][NextMain]_vars

\* One article directory with at most one file (the extractor works on one
\* file at a time), over the extractor's documents.
InitParse == InitWith(OneArticle, {DefaultBatchSize})
NextParse == Discover(1, ContentsOf(ExtractorDocs)) \/ Step
SpecParse == InitParse /\ [][NextParse]_vars

----------------------------------------------------------------------------
(* Vocabulary of the properties *)

\* The direct children of the first revision element of a document.
HasRevision(doc) == \E e \in Range(Descendants(doc)) : e.tag = "revision"
RevisionKids(doc) ==
    LET all == Descendants(doc)
    IN  all[CHOOSE k \in 1..Len(all) :
                /\ all[k].tag = "revision"
                /\ \A j \in 1..(k - 1) : all[j].tag # "revision"].kids

HasChild(kids, tag) == \E k \in 1..Len(kids) : kids[k].tag = tag
Child(kids, tag) == kids[CHOOSE k \in 1..Len(kids) :
                            /\ kids[k].tag = tag
                            /\ \A j \in 1..(k - 1) : kids[j].tag # tag]
ChildText(kids, tag) ==
    IF HasChild(kids, tag) THEN Some(Child(kids, tag).text) ELSE None

\* The read raised / the file holds a revision.
Raises(file) == file.content = None
Yields(file) == file.content # None /\ HasRevision(file.content[1])
Silent(file) == file.content # None /\ ~HasRevision(file.content[1])

\* The text of the timestamp child of a file that yields a record.
BadTimestamp(file) ==
    /\ Yields(file)
    /\ HasChild(RevisionKids(file.content[1]), "timestamp")
    /\ Child(RevisionKids(file.content[1]), "timestamp").text \notin GoodTimestamps

\* The files of the article the loop of lines 84-94 has been through.
InArticle == pc \in {"batch", "file", "assemble", "write", "crashed"}
ProcessedCount ==
    IF pc = "file" THEN Min(i + batch_size, Len(xml_files)) - Len(batch)
    ELSE IF pc = "batch" THEN i
    ELSE Len(xml_files)

\* Where a row came from, and whether any row gathered so far came from there.
FromPath(row, path) == row.year = path.year /\ row.month = path.month
AnyFrom(rows, path) == \E r \in 1..Len(rows) : FromPath(rows[r], path)
GatheredFrom(path) ==
    \/ AnyFrom(revision_data, path)
    \/ AnyFrom(Flatten(dataframes), path)
    \/ df # None /\ AnyFrom(df[1], path)

\* The table of the article with the whole file list as one batch.
RECURSIVE RecordsOfFiles(_, _)
RecordsOfFiles(files, with_text) ==
    IF files = <<>> THEN <<>>
    ELSE RecordsOfFile(Head(files), with_text) \o RecordsOfFiles(Tail(files), with_text)

SingleBatchFrames(files, with_text) ==
    IF RecordsOfFiles(files, with_text) = <<>> THEN <<>>
    ELSE <<DataFrame(RecordsOfFiles(files, with_text))>>

\* pandas' comparison of two datetime values: false when either is NaT.
Geq(a, b) == a # None /\ b # None /\ a[1] >= b[1]

----------------------------------------------------------------------------
(* C1: fault isolation *)

\* C1: files whose read raises leave no row, every other file holding a
\* revision leaves exactly one row in the returned table, wherever in the
\* batches the failing files lie, and the run stops only for a timestamp that
\* does not parse, never for a failing file.
C1_FaultIsolation ==
    /\ pc = "write" =>
          /\ Len(df[1]) = Cardinality({k \in 1..Len(xml_files) : Yields(xml_files[k])})
          /\ \A k \in 1..Len(xml_files) :
                Cardinality({r \in 1..Len(df[1]) : FromPath(df[1][r], xml_files[k].path)})
                  = IF Yields(xml_files[k]) THEN 1 ELSE 0
    /\ pc = "crashed" => \E k \in 1..Len(xml_files) : BadTimestamp(xml_files[k])

\* A table was returned although the first file failed, and a file of a later
\* batch is in it.
C1_Witness ==
    /\ pc = "write"
    /\ batch_size = 1
    /\ Len(xml_files) = 3
    /\ Raises(xml_files[1])
    /\ Raises(xml_files[2])
    /\ Yields(xml_files[3])
    /\ Len(df[1]) = 1

----------------------------------------------------------------------------
(* C2: batching is transparent *)

\* C2: whatever the batch size, the concatenation of the partial tables is
\* the table built from the whole file list as one batch, and the returned
\* table is that table converted and sorted: the batch size never shows.
C2_BatchingTransparent ==
    /\ pc = "assemble" =>
          /\ (dataframes = <<>>) = (SingleBatchFrames(xml_files, include_text) = <<>>)
          /\ Concat(dataframes) = Concat(SingleBatchFrames(xml_files, include_text))
    /\ pc = "write" =>
          df = Some(SortValues(ToDatetime(
                      Concat(SingleBatchFrames(xml_files, include_text))), tie))

\* A table returned from three batches of one file each.
C2_Witness ==
    /\ pc = "write"
    /\ batch_size = 1
    /\ Len(dataframes) = 3
    /\ Len(df[1]) = 3

----------------------------------------------------------------------------
(* C3: the returned table is sorted by timestamp, descending *)

\* C3 as stated: every row's timestamp is greater than or equal to the next
\* row's, also in tables with rows that have no timestamp.
C3_AdjacentGeq ==
    pc = "write" =>
        \A r \in 1..(Len(df[1]) - 1) : Geq(df[1][r].timestamp, df[1][r + 1].timestamp)

\* C3 amended: the rows that have a timestamp are in descending order of
\* it, and every row without a timestamp comes after all of them.
C3_SortedDescendingNaTLast ==
    pc = "write" =>
        \A r, q \in 1..Len(df[1]) :
            r < q =>
                /\ (df[1][r].timestamp # None /\ df[1][q].timestamp # None)
                     => df[1][r].timestamp[1] >= df[1][q].timestamp[1]
                /\ df[1][r].timestamp = None => df[1][q].timestamp = None

\* A returned table whose rows were found in ascending order, with a row
\* without a timestamp found first.
C3_Witness ==
    /\ pc = "write"
    /\ Len(df[1]) = 3
    /\ df[1][1].index = 2
    /\ df[1][2].index = 1
    /\ df[1][3].index = 0
    /\ df[1][3].timestamp = None
    /\ df[1][1].timestamp[1] > df[1][2].timestamp[1]

----------------------------------------------------------------------------
(* C4: ties keep the discovery order *)

\* C4 as stated: two rows with the same parsed timestamp stand in the
\* returned table in the order in which their files were found.
C4_StableTies ==
    pc = "write" =>
        \A r, q \in 1..Len(df[1]) :
            (r < q /\ df[1][r].timestamp = df[1][q].timestamp)
                => df[1][r].index < df[1][q].index

----------------------------------------------------------------------------
(* C5: a file without a revision is skipped silently *)

\* C5: a file without a revision element gives no record, no row and no
\* error line; every error line names a file whose read raised.
C5_NoRevisionSilent ==
    InArticle =>
        /\ \A k \in 1..ProcessedCount :
              Silent(xml_files[k]) =>
                  /\ ParseRevisionXml(xml_files[k].content[1], include_text) = None
                  /\ ~GatheredFrom(xml_files[k].path)
                  /\ \A n \in 1..Len(log) : log[n].path # xml_files[k].path
        /\ \A n \in 1..Len(log) :
              \E k \in 1..ProcessedCount :
                  /\ log[n].path = xml_files[k].path
                  /\ Raises(xml_files[k])
        /\ \A k \in 1..ProcessedCount :
              Raises(xml_files[k]) =>
                  Cardinality({n \in 1..Len(log) : log[n].path = xml_files[k].path}) = 1

\* All three files are done: one without a revision, one that raised, one
\* that gave a row; one error line.
C5_Witness ==
    /\ pc = "assemble"
    /\ Len(xml_files) = 3
    /\ Silent(xml_files[1])
    /\ Raises(xml_files[2])
    /\ Yields(xml_files[3])
    /\ Len(log) = 1

----------------------------------------------------------------------------
(* The extractor's properties: the record of the one file of the article *)

Extracted == pc = "file" /\ Len(xml_files) = 1 /\ revision_data # <<>>
TheRecord == revision_data[1]
TheKids == RevisionKids(xml_files[1].content[1])
TheContributorKids == Child(TheKids, "contributor").kids

----------------------------------------------------------------------------
(* C6: each field comes from its own child of the revision *)

\* C6 as stated: revision_id, timestamp, comment and text are the texts of
\* the revision's own id, timestamp, comment and text children, and absent
\* when the revision has no such child.
C6_FieldsFromOwnChildren ==
    Extracted =>
        /\ TheRecord.revision_id = ChildText(TheKids, "id")
        /\ TheRecord.timestamp = ChildText(TheKids, "timestamp")
        /\ TheRecord.comment = ChildText(TheKids, "comment")
        /\ include_text => TheRecord.text = ChildText(TheKids, "text")

\* Where the code departs from C6: the revision has no id child, its
\* contributor has one, and revision_id is the contributor's id.
C6_IdTakenFromContributor ==
    /\ Extracted
    /\ ~HasChild(TheKids, "id")
    /\ HasChild(TheKids, "contributor")
    /\ HasChild(TheContributorKids, "id")
    /\ TheRecord.revision_id = Some("5")
    /\ TheRecord.userid = Some("5")

----------------------------------------------------------------------------
(* C7: the contributor's name falls back to the IP address *)

\* C7 as stated: with an ip and no username the username is the ip text;
\* with neither, and with no contributor at all, username and userid are
\* both absent.
C7_ContributorFallback ==
    Extracted =>
        IF ~HasChild(TheKids, "contributor")
        THEN TheRecord.username = None /\ TheRecord.userid = None
        ELSE IF HasChild(TheContributorKids, "username") THEN TRUE
        ELSE IF HasChild(TheContributorKids, "ip")
        THEN TheRecord.username = Some(Child(TheContributorKids, "ip").text)
        ELSE TheRecord.username = None /\ TheRecord.userid = None

\* C7 amended: with an ip and no username the username is the ip text; with
\* neither the username is absent and the userid is the text of the
\* contributor's id child, absent only when there is no such child; with no
\* contributor at all both are absent.
C7_ContributorFallbackKeepsId ==
    Extracted =>
        IF ~HasChild(TheKids, "contributor")
        THEN TheRecord.username = None /\ TheRecord.userid = None
        ELSE IF HasChild(TheContributorKids, "username") THEN TRUE
        ELSE IF HasChild(TheContributorKids, "ip")
        THEN TheRecord.username = Some(Child(TheContributorKids, "ip").text)
        ELSE /\ TheRecord.username = None
             /\ TheRecord.userid = ChildText(TheContributorKids, "id")

\* The record of a revision whose contributor has an ip and an id but no
\* username.
C7_Witness ==
    /\ Extracted
    /\ HasChild(TheKids, "contributor")
    /\ ~HasChild(TheContributorKids, "username")
    /\ HasChild(TheContributorKids, "ip")
    /\ HasChild(TheContributorKids, "id")
    /\ TheRecord.username = Some("10.0.0.1")
    /\ TheRecord.userid = Some("5")

----------------------------------------------------------------------------
(* C8: text_length and the text field *)

\* C8: text_length is the number of characters of the revision's text, 0
\* when the text is empty or there is none, with and without include_text;
\* the record has a text field exactly when include_text is set.
C8_TextLengthAndTextField ==
    Extracted =>
        /\ TheRecord.text_length =
              (IF HasChild(TheKids, "text") THEN Len(Child(TheKids, "text").text) ELSE 0)
        /\ ("text" \in DOMAIN TheRecord) = include_text

\* The record of a revision with a two-character text, the text not kept.
C8_Witness ==
    /\ Extracted
    /\ ~include_text
    /\ HasChild(TheKids, "text")
    /\ Child(TheKids, "text").text = "ab"
    /\ TheRecord.text_length = 2
    /\ "text" \notin DOMAIN TheRecord

----------------------------------------------------------------------------
(* C9: articles without a record give no output *)

\* The article directory main visited last has a file that gives a record.
ArticleYields == \E k \in 1..Len(xml_files) : Yields(xml_files[k])
Visited == article # "" /\ pc \in {"main", "done", "crashed"}

\* C9 as stated: once main is through with an article, the article has an
\* output file and a summary exactly when one of its files gave a record.
C9_OutputIffRecord ==
    Visited =>
        /\ (article \in outputs) = ArticleYields
        /\ (article \in Range(summaries)) = ArticleYields

\* C9 amended: an article none of whose files gives a record never has an
\* output file or a summary and never stops the run; an article that main
\* got through without a timestamp failing to parse has an output file and
\* a summary exactly when one of its files gave a record.
C9_OutputIffRecordUnlessStopped ==
    /\ ~ArticleYields =>
          /\ article \notin outputs
          /\ article \notin Range(summaries)
          /\ pc # "crashed"
    /\ (article # "" /\ pc \in {"main", "done"}) =>
          /\ (article \in outputs) = ArticleYields
          /\ (article \in Range(summaries)) = ArticleYields

\* The run is over; the last article gave a table and has its file and its
\* summary, the one before it had files but none gave a record and has none.
C9_Witness ==
    /\ pc = "done"
    /\ article = "ArticleB"
    /\ ArticleYields
    /\ outputs = {"ArticleB"}
    /\ summaries = <<"ArticleB">>
    /\ Len(log) = 2
    /\ log[1].article = "ArticleA"
    /\ log[2].article = "ArticleA"

----------------------------------------------------------------------------
(* C10: a timestamp that does not parse stops the run *)

\* A row gathered for the article has a timestamp text that does not parse.
UnparsedRow ==
    \E r \in 1..Len(Flatten(dataframes)) :
        /\ Flatten(dataframes)[r].timestamp # None
        /\ Flatten(dataframes)[r].timestamp[1] \notin GoodTimestamps

\* One step of the run as C10 describes it.
C10_Step ==
    /\ pc # "crashed"
    /\ (pc = "assemble" /\ UnparsedRow) =>
          /\ pc' = "crashed"
          /\ outputs' = outputs
          /\ summaries' = summaries
          /\ entries' = entries
          /\ article \notin outputs'
          /\ \A n \in 1..Len(entries') : entries'[n].name \notin outputs'

\* C10: when the conversion meets a timestamp that does not parse, the run
\* stops there: the article gets no output file, the entries after it are
\* never visited, the output files written before stay, and nothing runs
\* after the stop.
C10_TimestampFailureStopsRun == [][C10_Step]_vars

\* The run stopped in the second article: the first has its output file,
\* the second has none, a third was never visited.
C10_Witness ==
    /\ pc = "crashed"
    /\ outputs = {"ArticleB"}
    /\ article = "ArticleA"
    /\ entries = <<DirEntry("ArticleC")>>

====
